---- MODULE Spec2Model ----
(***************************************************************************)
(* Model of recommender_system/AssociationRule.py: the RuleMetrics         *)
(* statistics over match tables and the AssociationRule object that holds  *)
(* them.                                                                   *)
(*                                                                         *)
(* A DataFrame is a sequence of rows.  A match row is a record             *)
(*   [winner, radiant, dire]  (columns winner | radiant_hero_1..5 |        *)
(*   dire_hero_1..5), a side row is a sequence of slots hero_1, hero_2 ... *)
(* A Python list of heroes is a sequence; None is <<>> and a supplied      *)
(* optional value x is <<x>>.  A float is an exact fraction [n, d]; the    *)
(* numpy scalars the code divides give nan for 0/0 and inf for x/0 instead *)
(* of raising.                                                             *)
(***************************************************************************)
EXTENDS Integers, Sequences, FiniteSets, TLC

VARIABLES rule_type, lhs, rhs, ctor_type,
          allies_support, allies_win_rate,
          enemies_confidence, counter_coefficient,
          op, args, ret, raised

vars == <<rule_type, lhs, rhs, ctor_type, allies_support, allies_win_rate,
          enemies_confidence, counter_coefficient, op, args, ret, raised>>

rule == <<rule_type, lhs, rhs, ctor_type>>

metrics == <<allies_support, allies_win_rate, enemies_confidence, counter_coefficient>>

(***************************************************************************)
(* Bounds and input domains                                                *)
(***************************************************************************)
MaxRows == 2

TeamSize == 5

None == <<>>

Some(x) == <<x>>

Range(s) == {s[i] : i \in DOMAIN s}

RuleTypes == {"allies", "enemies"}

\* the rule's hero lists: duplicate-free, non-empty
HeroLists == {<<"A">>, <<"B">>, <<"A", "B">>}

OptHeroLists == {None} \cup {Some(l) : l \in HeroLists}

Winners == {1, -1}

RadiantFill == <<"R1", "R2", "R3", "R4", "R5">>

DireFill == <<"D1", "D2", "D3", "D4", "D5">>

SideFill == <<"X", "X", "X", "X", "X">>

\* a 5-slot group: the given heroes first, the rest filled up
Team(heroes, fill) == heroes \o SubSeq(fill, 1, TeamSize - Len(heroes))

Placements == {<<>>, <<"A">>, <<"B">>, <<"A", "B">>}

\* match rows: 10 pairwise distinct heroes; A is radiant, dire or absent, and
\* so is B in the matches A plays
MatchRows ==
    {[winner |-> w, radiant |-> Team(p[1], RadiantFill), dire |-> Team(p[2], DireFill)] :
        w \in Winners,
        p \in {q \in Placements \X Placements :
                  /\ Range(q[1]) \cap Range(q[2]) = {}
                  /\ "B" \in Range(q[1] \o q[2]) => "A" \in Range(q[1] \o q[2])}}

\* side rows: slots hero_1..hero_10; a roster may repeat an identifier
SideRows ==
    {Team(f, SideFill) \o Team(s, SideFill) :
        f \in {<<>>, <<"A">>, <<"A", "B">>, <<"A", "A">>}, s \in {<<>>}}
    \cup
    {Team(f, SideFill) \o Team(<<"B">>, SideFill) : f \in {<<"A">>}}

Tables(rows) == UNION {[1..k -> rows] : k \in 0..MaxRows}

MatchTables == Tables(MatchRows)

SideTables == Tables(SideRows)

(***************************************************************************)
(* Floats                                                                  *)
(***************************************************************************)
RECURSIVE Gcd(_, _)
Gcd(a, b) == IF b = 0 THEN a ELSE Gcd(b, a % b)

NaN == [n |-> 0, d |-> 0]

Inf == [n |-> 1, d |-> 0]

Frac(n, d) ==
    IF d = 0 THEN (IF n = 0 THEN NaN ELSE Inf)
    ELSE [n |-> n \div Gcd(n, d), d |-> d \div Gcd(n, d)]

Float(i) == [n |-> i, d |-> 1]

IsNaN(x) == x.n = 0 /\ x.d = 0

IsInf(x) == x.n # 0 /\ x.d = 0

FloatAdd(x, y) ==
    IF IsNaN(x) \/ IsNaN(y) THEN NaN
    ELSE IF IsInf(x) \/ IsInf(y) THEN Inf
    ELSE Frac(x.n * y.d + y.n * x.d, x.d * y.d)

FloatDiv(x, y) ==
    IF IsNaN(x) \/ IsNaN(y) THEN NaN
    ELSE IF IsInf(x) THEN (IF IsInf(y) THEN NaN ELSE Inf)
    ELSE IF IsInf(y) THEN Float(0)
    ELSE Frac(x.n * y.d, x.d * y.n)

(***************************************************************************)
(* DataFrame helpers                                                       *)
(***************************************************************************)
BoolInt(b) == IF b THEN 1 ELSE 0

\* faulty variant: the membership test negated
RECURSIVE IsinSum_negated(_, _)
IsinSum_negated(slots, values) ==
    IF slots = <<>> THEN 0
    ELSE BoolInt(Head(slots) \notin Range(values)) + IsinSum_negated(Tail(slots), values)

\* df.isin(values).sum(axis=1) for one row: the number of slots whose value
\* is one of `values`
RECURSIVE IsinSum(_, _)
IsinSum(slots, values) ==
    IF slots = <<>> THEN 0
    ELSE BoolInt(Head(slots) \in Range(values)) + IsinSum(Tail(slots), values)

\* (series >= threshold).sum(): the number of rows whose count reaches it
RECURSIVE CountAtLeast(_, _)
CountAtLeast(counts, threshold) ==
    IF counts = <<>> THEN 0
    ELSE BoolInt(Head(counts) >= threshold) + CountAtLeast(Tail(counts), threshold)

\* df_win.loc[:, 'hero_1':'hero_5']
HeroColumns(row) == SubSeq(row, 1, TeamSize)

(***************************************************************************)
(* RuleMetrics                                                             *)
(***************************************************************************)
\* faulty variant: the threshold is the size of lhs + rhs instead of lhs
get_allies_support_all(df_win) ==
    LET total_count   == Len(df_win)
        row_count     == [i \in DOMAIN df_win |->
                             IsinSum(HeroColumns(df_win[i]), lhs \o rhs)]
        support_count == CountAtLeast(row_count, Len(lhs \o rhs))
    IN  FloatDiv(Float(support_count), Float(total_count))

AlliesRowCount(df_win) ==
    [i \in DOMAIN df_win |-> IsinSum(HeroColumns(df_win[i]), lhs \o rhs)]

get_allies_support(df_win) ==
    LET total_count   == Len(df_win)
        row_count     == AlliesRowCount(df_win)
        support_count == CountAtLeast(row_count, Len(lhs))
    IN  FloatDiv(Float(support_count), Float(total_count))

\* faulty variant: a zero denominator is answered with 0
get_allies_win_rate_guarded(df_win, df_lose) ==
    LET support_win  == get_allies_support(df_win)
        support_lose == get_allies_support(df_lose)
        total        == FloatAdd(support_win, support_lose)
    IN  IF IsNaN(total) \/ total.n = 0 THEN Float(0)
        ELSE FloatDiv(support_win, total)

get_allies_win_rate(df_win, df_lose) ==
    LET support_win  == get_allies_support(df_win)
        support_lose == get_allies_support(df_lose)
    IN  FloatDiv(support_win, FloatAdd(support_win, support_lose))

\* faulty variant: the dire heroes are looked up in the radiant columns
WinRowSum_radiant_twice(df_match, radiant, dire, winner) ==
    [i \in DOMAIN df_match |->
        BoolInt(df_match[i].winner = winner)
        + (IF radiant # None THEN IsinSum(df_match[i].radiant, radiant[1]) ELSE 0)
        + (IF dire # None THEN IsinSum(df_match[i].radiant, dire[1]) ELSE 0)]

WinRowSum(df_match, radiant, dire, winner) ==
    [i \in DOMAIN df_match |->
        BoolInt(df_match[i].winner = winner)
        + (IF radiant # None THEN IsinSum(df_match[i].radiant, radiant[1]) ELSE 0)
        + (IF dire # None THEN IsinSum(df_match[i].dire, dire[1]) ELSE 0)]

WinLenRule(radiant, dire) ==
    IF radiant # None /\ dire # None THEN Len(radiant[1] \o dire[1])
    ELSE IF radiant # None THEN Len(radiant[1])
    ELSE Len(dire[1])

\* faulty variant: the threshold misses the + 1 of the winner column
get_win_support_no_winner(df_match, radiant, dire, winner) ==
    CountAtLeast(WinRowSum(df_match, radiant, dire, winner),
                 WinLenRule(radiant, dire))

\* defined when radiant and dire are not both None (the code raises otherwise)
get_win_support(df_match, radiant, dire, winner) ==
    CountAtLeast(WinRowSum(df_match, radiant, dire, winner),
                 WinLenRule(radiant, dire) + 1)

\* faulty variant: the second seat orientation is missing from the numerator
get_enemies_confidence_one_seat(df_match) ==
    LET rhs_win_support ==
            0 + get_win_support(df_match, Some(lhs), Some(rhs), -1)
        lhs_lose_support ==
            0 + get_win_support(df_match, Some(lhs), None, -1)
              + get_win_support(df_match, None, Some(lhs), 1)
    IN  FloatDiv(Float(rhs_win_support), Float(lhs_lose_support))

\* faulty variant: the denominator's second term asks for a dire win
get_enemies_confidence_dire_win(df_match) ==
    LET rhs_win_support ==
            0 + get_win_support(df_match, Some(lhs), Some(rhs), -1)
              + get_win_support(df_match, Some(rhs), Some(lhs), 1)
        lhs_lose_support ==
            0 + get_win_support(df_match, Some(lhs), None, -1)
              + get_win_support(df_match, None, Some(lhs), -1)
    IN  FloatDiv(Float(rhs_win_support), Float(lhs_lose_support))

get_enemies_confidence(df_match) ==
    LET rhs_win_support ==
            0 + get_win_support(df_match, Some(lhs), Some(rhs), -1)
              + get_win_support(df_match, Some(rhs), Some(lhs), 1)
        lhs_lose_support ==
            0 + get_win_support(df_match, Some(lhs), None, -1)
              + get_win_support(df_match, None, Some(lhs), 1)
    IN  FloatDiv(Float(rhs_win_support), Float(lhs_lose_support))

\* faulty variant: the numerator is the support of the reverse rule
get_counter_coefficient_reverse(df_match) ==
    LET rhs_win_support ==
            0 + get_win_support(df_match, Some(lhs), Some(rhs), -1)
              + get_win_support(df_match, Some(rhs), Some(lhs), 1)
        lhs_win_support ==
            0 + get_win_support(df_match, Some(rhs), Some(lhs), -1)
              + get_win_support(df_match, Some(lhs), Some(rhs), 1)
    IN  FloatDiv(Float(lhs_win_support), Float(rhs_win_support + lhs_win_support))

get_counter_coefficient(df_match) ==
    LET rhs_win_support ==
            0 + get_win_support(df_match, Some(lhs), Some(rhs), -1)
              + get_win_support(df_match, Some(rhs), Some(lhs), 1)
        lhs_win_support ==
            0 + get_win_support(df_match, Some(rhs), Some(lhs), -1)
              + get_win_support(df_match, Some(lhs), Some(rhs), 1)
    IN  FloatDiv(Float(rhs_win_support), Float(rhs_win_support + lhs_win_support))

(***************************************************************************)
(* Calls of the RuleMetrics functions on a constructed rule                *)
(***************************************************************************)
Call_get_allies_support ==
    /\ op = "idle"
    /\ \E df_win \in SideTables :
        /\ op' = "get_allies_support"
        /\ args' = [df_win |-> df_win]
        /\ ret' = get_allies_support(df_win)
        /\ raised' = FALSE
    /\ UNCHANGED <<rule, metrics>>

Call_get_win_support ==
    /\ op = "idle"
    /\ \E df_match \in MatchTables, radiant \in OptHeroLists,
          dire \in OptHeroLists, winner \in Winners :
        /\ op' = "get_win_support"
        /\ args' = [df_match |-> df_match, radiant |-> radiant,
                    dire |-> dire, winner |-> winner]
        /\ IF radiant = None /\ dire = None
             THEN ret' = None /\ raised' = TRUE
             ELSE ret' = get_win_support(df_match, radiant, dire, winner)
                  /\ raised' = FALSE
    /\ UNCHANGED <<rule, metrics>>

Call_get_allies_win_rate ==
    /\ op = "idle"
    /\ \E df_win \in SideTables, df_lose \in SideTables :
        /\ op' = "get_allies_win_rate"
        /\ args' = [df_win |-> df_win, df_lose |-> df_lose]
        /\ ret' = get_allies_win_rate(df_win, df_lose)
        /\ raised' = FALSE
    /\ UNCHANGED <<rule, metrics>>

Call_get_enemies_confidence ==
    /\ op = "idle"
    /\ \E df_match \in MatchTables :
        /\ op' = "get_enemies_confidence"
        /\ args' = [df_match |-> df_match]
        /\ ret' = get_enemies_confidence(df_match)
        /\ raised' = FALSE
    /\ UNCHANGED <<rule, metrics>>

Call_get_counter_coefficient ==
    /\ op = "idle"
    /\ \E df_match \in MatchTables :
        /\ op' = "get_counter_coefficient"
        /\ args' = [df_match |-> df_match]
        /\ ret' = get_counter_coefficient(df_match)
        /\ raised' = FALSE
    /\ UNCHANGED <<rule, metrics>>

\* RuleMetrics.__init__ / AssociationRule.__init__ with a valid rule_type
Init ==
    /\ rule_type \in RuleTypes
    /\ ctor_type = rule_type
    /\ lhs \in HeroLists
    /\ rhs \in HeroLists
    /\ allies_support = None
    /\ allies_win_rate = None
    /\ enemies_confidence = None
    /\ counter_coefficient = None
    /\ op = "idle"
    /\ args = <<>>
    /\ ret = None
    /\ raised = FALSE

(***************************************************************************)
(* AssociationRule                                                         *)
(***************************************************************************)
\* tables handed to compute_metrics
MaxComputeRows == 1

ComputeTables(rows) == UNION {[1..k -> rows] : k \in 0..MaxComputeRows}

ComputeSideTables == ComputeTables(SideRows)

ComputeMatchTables == ComputeTables(MatchRows)

\* values handed to set_metrics
MetricArgs == {None, Some(Frac(1, 2))}

\* an allies rule reads df_win and df_lose only, an enemies rule df_match only
compute_metrics_allies ==
    /\ rule_type = "allies"
    /\ \E df_win \in ComputeSideTables, df_lose \in ComputeSideTables :
        /\ allies_support' = Some(get_allies_support(df_win))
        /\ allies_win_rate' = Some(get_allies_win_rate(df_win, df_lose))
    /\ UNCHANGED <<enemies_confidence, counter_coefficient>>

compute_metrics_enemies ==
    /\ rule_type = "enemies"
    /\ \E df_match \in ComputeMatchTables :
        /\ enemies_confidence' = Some(get_enemies_confidence(df_match))
        /\ counter_coefficient' = Some(get_counter_coefficient(df_match))
    /\ UNCHANGED <<allies_support, allies_win_rate>>

\* faulty variant: all four metrics are computed whatever the rule type
compute_metrics_all_four ==
    /\ \E df_win \in ComputeSideTables, df_lose \in ComputeSideTables,
          df_match \in ComputeMatchTables :
        /\ allies_support' = Some(get_allies_support(df_win))
        /\ allies_win_rate' = Some(get_allies_win_rate(df_win, df_lose))
        /\ enemies_confidence' = Some(get_enemies_confidence(df_match))
        /\ counter_coefficient' = Some(get_counter_coefficient(df_match))
    /\ op' = "compute_metrics"
    /\ args' = <<>>
    /\ ret' = None
    /\ raised' = FALSE
    /\ UNCHANGED rule

compute_metrics ==
    /\ compute_metrics_allies \/ compute_metrics_enemies
    /\ op' = "compute_metrics"
    /\ args' = <<>>
    /\ ret' = None
    /\ raised' = FALSE
    /\ UNCHANGED rule

\* faulty variant: the fields of the rule's kind are written before the check
set_metrics_write_first(a_support, a_win_rate, e_confidence, c_coefficient) ==
    /\ op' = "set_metrics"
    /\ args' = [allies_support |-> a_support, allies_win_rate |-> a_win_rate,
                enemies_confidence |-> e_confidence,
                counter_coefficient |-> c_coefficient]
    /\ ret' = None
    /\ IF rule_type = "allies"
         THEN /\ allies_support' = a_support
              /\ allies_win_rate' = a_win_rate
              /\ UNCHANGED <<enemies_confidence, counter_coefficient>>
              /\ raised' = (e_confidence # None \/ c_coefficient # None)
         ELSE /\ enemies_confidence' = e_confidence
              /\ counter_coefficient' = c_coefficient
              /\ UNCHANGED <<allies_support, allies_win_rate>>
              /\ raised' = (a_support # None \/ a_win_rate # None)
    /\ UNCHANGED rule

set_metrics(a_support, a_win_rate, e_confidence, c_coefficient) ==
    /\ op' = "set_metrics"
    /\ args' = [allies_support |-> a_support, allies_win_rate |-> a_win_rate,
                enemies_confidence |-> e_confidence,
                counter_coefficient |-> c_coefficient]
    /\ ret' = None
    /\ IF rule_type = "allies"
         THEN IF e_confidence # None \/ c_coefficient # None
                THEN raised' = TRUE /\ UNCHANGED metrics
                ELSE /\ raised' = FALSE
                     /\ allies_support' = a_support
                     /\ allies_win_rate' = a_win_rate
                     /\ UNCHANGED <<enemies_confidence, counter_coefficient>>
         ELSE IF rule_type = "enemies"
                THEN IF a_support # None \/ a_win_rate # None
                       THEN raised' = TRUE /\ UNCHANGED metrics
                       ELSE /\ raised' = FALSE
                            /\ enemies_confidence' = e_confidence
                            /\ counter_coefficient' = c_coefficient
                            /\ UNCHANGED <<allies_support, allies_win_rate>>
                ELSE raised' = TRUE /\ UNCHANGED metrics
    /\ UNCHANGED rule

Call_set_metrics ==
    \E a \in MetricArgs, w \in MetricArgs, e \in MetricArgs, c \in MetricArgs :
        set_metrics(a, w, e, c)

Next == compute_metrics \/ Call_set_metrics

\* compute_metrics and set_metrics branch on the rule type alone: the rule
\* holds the one-hero lists of the module's driver and is of either type
InitRule == Init /\ lhs = <<"A">> /\ rhs = <<"B">>

Spec == InitRule /\ [][Next]_vars

\* the statistics read lhs and rhs and never the rule type: their calls are
\* made on the rule of the module's driver, an enemies rule, with any lists
InitMetrics == Init /\ rule_type = "enemies"

NextSupport == Call_get_allies_support \/ Call_get_win_support

SpecSupport == InitMetrics /\ [][NextSupport]_vars

NextRatios ==
    \/ Call_get_allies_win_rate
    \/ Call_get_enemies_confidence
    \/ Call_get_counter_coefficient

SpecRatios == InitMetrics /\ [][NextRatios]_vars

(***************************************************************************)
(* Properties                                                              *)
(***************************************************************************)
Min(a, b) == IF a <= b THEN a ELSE b

Distinct(slots) == Cardinality(Range(slots)) = Len(slots)

\* every member of an optional hero list sits in the slots (absent: no demand)
HasAll(slots, opt) == opt = None \/ Range(opt[1]) \subseteq Range(slots)

SetOf(l) == Range(l)

\* the matches of T that side X wins against side Y, either seat orientation
Beats(T, X, Y) ==
    Cardinality({i \in DOMAIN T :
        \/ T[i].winner = 1 /\ SetOf(X) \subseteq Range(T[i].radiant)
                           /\ SetOf(Y) \subseteq Range(T[i].dire)
        \/ T[i].winner = -1 /\ SetOf(X) \subseteq Range(T[i].dire)
                            /\ SetOf(Y) \subseteq Range(T[i].radiant)})

\* the matches of T in which X is a side and loses, either seat orientation
Loses(T, X) ==
    Cardinality({i \in DOMAIN T :
        \/ T[i].winner = -1 /\ SetOf(X) \subseteq Range(T[i].radiant)
        \/ T[i].winner = 1 /\ SetOf(X) \subseteq Range(T[i].dire)})

\* T with the radiant and dire columns of every row swapped, winner negated
SwapSeats(T) ==
    [i \in DOMAIN T |-> [winner |-> -T[i].winner,
                         radiant |-> T[i].dire, dire |-> T[i].radiant]]

\* C1: get_win_support returns the number of rows whose winner flag equals
\* `winner` and whose radiant (dire) slots contain every member of `radiant`
\* (`dire`) when present; no other row is counted.
C1_WinSupportCounts ==
    (op = "get_win_support" /\ ~raised) =>
        ret = Cardinality({i \in DOMAIN args.df_match :
                  /\ args.df_match[i].winner = args.winner
                  /\ HasAll(args.df_match[i].radiant, args.radiant)
                  /\ HasAll(args.df_match[i].dire, args.dire)})

\* two rows with the asked winner, one of them missing a required hero
C1_Witness ==
    /\ op = "get_win_support" /\ ~raised
    /\ args.radiant # None /\ args.dire # None
    /\ Len(args.df_match) = 2
    /\ \A i \in DOMAIN args.df_match : args.df_match[i].winner = args.winner
    /\ ret = 1

\* the rows of a side table whose slots 1..k hold at least |LHS| members of
\* LHS \cup RHS
SupportingRows(T, k) ==
    {i \in DOMAIN T :
        Cardinality({j \in 1..k : T[i][j] \in SetOf(lhs) \cup SetOf(rhs)})
            >= Cardinality(SetOf(lhs))}

\* C2 as stated: on a non-empty side table get_allies_support is the share of
\* rows with at least |LHS| of all their 10 slots in LHS \cup RHS.
C2_AllTenSlots ==
    (op = "get_allies_support" /\ Len(args.df_win) > 0) =>
        ret = Frac(Cardinality(SupportingRows(args.df_win, 2 * TeamSize)),
                   Len(args.df_win))

\* C2 amended: on a non-empty side table get_allies_support is the share of
\* rows with at least |LHS| of the slots hero_1..hero_5 in LHS \cup RHS; the
\* slots after hero_5 do not contribute.
C2_FirstFiveSlots ==
    (op = "get_allies_support" /\ Len(args.df_win) > 0) =>
        ret = Frac(Cardinality(SupportingRows(args.df_win, TeamSize)),
                   Len(args.df_win))

\* a row supports the rule over its 10 slots but not over hero_1..hero_5
C2_Witness ==
    /\ op = "get_allies_support"
    /\ Len(args.df_win) = 2
    /\ Cardinality(SupportingRows(args.df_win, 2 * TeamSize)) = 2
    /\ ret = Frac(1, 2)

\* C3 as stated: get_counter_coefficient is W_L / (W_L + W_R), the share of
\* the head-to-head matches that LHS wins.
C3_LhsDominance ==
    (op = "get_counter_coefficient"
        /\ Beats(args.df_match, lhs, rhs) + Beats(args.df_match, rhs, lhs) # 0) =>
        ret = Frac(Beats(args.df_match, lhs, rhs),
                   Beats(args.df_match, lhs, rhs) + Beats(args.df_match, rhs, lhs))

\* C3 amended: get_counter_coefficient is W_R / (W_L + W_R), the share of the
\* head-to-head matches that RHS wins: 1 when RHS won every one of them.
C3_RhsDominance ==
    (op = "get_counter_coefficient"
        /\ Beats(args.df_match, lhs, rhs) + Beats(args.df_match, rhs, lhs) # 0) =>
        ret = Frac(Beats(args.df_match, rhs, lhs),
                   Beats(args.df_match, lhs, rhs) + Beats(args.df_match, rhs, lhs))

\* RHS won both head-to-head matches, one in each seat orientation
C3_Witness ==
    /\ op = "get_counter_coefficient"
    /\ Beats(args.df_match, rhs, lhs) = 2
    /\ Beats(args.df_match, lhs, rhs) = 0
    /\ \E i, j \in DOMAIN args.df_match : args.df_match[i].winner # args.df_match[j].winner
    /\ ret = Float(1)

\* C4: get_enemies_confidence is the number of matches RHS won against LHS
\* over the number of matches in which LHS was a side and lost, both seat
\* orientations summed, when the latter is not zero.
C4_EnemiesConfidence ==
    (op = "get_enemies_confidence" /\ Loses(args.df_match, lhs) # 0) =>
        ret = Frac(Beats(args.df_match, rhs, lhs), Loses(args.df_match, lhs))

\* LHS lost twice, once in each seat, and once of these against RHS
C4_Witness ==
    /\ op = "get_enemies_confidence"
    /\ Loses(args.df_match, lhs) = 2
    /\ \E i, j \in DOMAIN args.df_match : args.df_match[i].winner # args.df_match[j].winner
    /\ ret = Frac(1, 2)

IsZero(x) == x.n = 0 /\ x.d # 0

\* x / (x + y) for two finite fractions
ShareOf(x, y) == Frac(x.n * y.d, x.n * y.d + y.n * x.d)

SuppliesOtherKind(a) ==
    \/ rule_type = "allies"
        /\ (a.enemies_confidence # None \/ a.counter_coefficient # None)
    \/ rule_type = "enemies"
        /\ (a.allies_support # None \/ a.allies_win_rate # None)

\* C6: a set_metrics call that supplies a metric of the other kind fails, and
\* the four metric fields are after it what they were before it.
C6_KindExclusivity ==
    [][(op' = "set_metrics" /\ SuppliesOtherKind(args'))
            => (raised' /\ UNCHANGED metrics)]_vars

\* a failed call on an allies rule that also supplied a valid allies_support
\* different from the one the rule holds
C6_Witness ==
    /\ op = "set_metrics" /\ raised
    /\ rule_type = "allies"
    /\ args.allies_support # None
    /\ args.enemies_confidence # None
    /\ allies_support # None
    /\ allies_support # args.allies_support

\* C7: the rule type is the one given at construction, and the two metric
\* fields of the other kind are None.
C7_ModeInvariant ==
    /\ rule_type = ctor_type
    /\ rule_type = "allies" => enemies_confidence = None /\ counter_coefficient = None
    /\ rule_type = "enemies" => allies_support = None /\ allies_win_rate = None

\* an enemies rule holding computed metrics after a failed set_metrics call
C7_Witness ==
    /\ op = "set_metrics" /\ raised
    /\ rule_type = "enemies"
    /\ enemies_confidence # None /\ enemies_confidence # Some(Frac(1, 2))
    /\ counter_coefficient # None

\* C8: get_win_support(T, A, B, +1) equals get_win_support(T', B, A, -1) for
\* T' the table T with the seats swapped and the winner negated, also when A
\* or B is absent.
C8_SeatSymmetry ==
    (op = "get_win_support" /\ ~raised /\ args.winner = 1) =>
        ret = get_win_support(SwapSeats(args.df_match), args.dire, args.radiant, -1)

\* only dire heroes are asked for, and a row is counted
C8_Witness ==
    /\ op = "get_win_support" /\ ~raised /\ args.winner = 1
    /\ args.radiant = None
    /\ Len(args.df_match) = 2
    /\ ret = 1

\* the slot groups a call counts memberships over, each with its candidates
CountedGroups ==
    IF op = "get_allies_support"
      THEN {<<HeroColumns(args.df_win[i]), lhs \o rhs>> : i \in DOMAIN args.df_win}
    ELSE IF op = "get_win_support" /\ ~raised
      THEN {<<args.df_match[i].radiant, args.radiant[1]>> :
                i \in {j \in DOMAIN args.df_match : args.radiant # None}}
           \cup
           {<<args.df_match[i].dire, args.dire[1]>> :
                i \in {j \in DOMAIN args.df_match : args.dire # None}}
    ELSE {}

\* C9 as stated: the per-row membership count is at most
\* min(|slots|, |candidateSet|), also for rows that repeat an identifier.
C9_CountAtMostMin ==
    \A g \in CountedGroups :
        IsinSum(g[1], g[2]) <= Min(Len(g[1]), Cardinality(Range(g[2])))

\* C9 amended: the per-row membership count is at most |slots|, and at most
\* |candidateSet| when the slots hold pairwise distinct identifiers.
C9_CountAtMostSlots ==
    \A g \in CountedGroups :
        /\ IsinSum(g[1], g[2]) <= Len(g[1])
        /\ Distinct(g[1]) => IsinSum(g[1], g[2]) <= Cardinality(Range(g[2]))

\* a row of distinct identifiers holding every candidate
C9_Witness ==
    \E g \in CountedGroups :
        /\ Distinct(g[1])
        /\ Cardinality(Range(g[2])) = 2
        /\ IsinSum(g[1], g[2]) = 2

\* numerator and denominator of get_enemies_confidence for a rule (l, r)
ConfidenceNum(T, l, r) ==
    get_win_support(T, Some(l), Some(r), -1) + get_win_support(T, Some(r), Some(l), 1)

ConfidenceDen(T, l, r) ==
    get_win_support(T, Some(l), None, -1) + get_win_support(T, None, Some(l), 1)

\* C10 as stated: some match table of rows with 10 pairwise distinct heroes
\* and some rule give get_enemies_confidence a numerator greater than its
\* non-zero denominator.
C10_ExceedsOne ==
    \E T \in MatchTables, l \in HeroLists, r \in HeroLists :
        /\ rule_type \in RuleTypes
        /\ ConfidenceDen(T, l, r) # 0
        /\ ConfidenceNum(T, l, r) > ConfidenceDen(T, l, r)

\* C10 amended: on match tables of rows with 10 pairwise distinct heroes the
\* numerator of get_enemies_confidence never exceeds the denominator: the
\* value returned is nan (0/0) or lies in [0, 1], also when LHS and RHS overlap.
C10_AtMostOne ==
    op = "get_enemies_confidence" =>
        \/ IsNaN(ret)
        \/ ret.d # 0 /\ ret.n <= ret.d

\* LHS and RHS overlap, LHS lost a match, and the value is 0
C10_Witness ==
    /\ op = "get_enemies_confidence"
    /\ SetOf(lhs) \cap SetOf(rhs) # {}
    /\ ConfidenceDen(args.df_match, lhs, rhs) # 0
    /\ ret = Float(0)

====
